---- MODULE Spec2Model ----
(***************************************************************************)
(* RAWGD: a compact binary container for mesh geometry.                    *)
(*                                                                         *)
(* The module models the numeric codec (half floats, octahedral normals,   *)
(* packed colours, the version byte) and the encoder and decoder built on  *)
(* it.  Numbers are modelled as follows.                                   *)
(*   - A 32-bit float is the record [s, e, m] of the three fields of its   *)
(*     bit pattern (sign, 8-bit biased exponent, 23-bit mantissa): the     *)
(*     code itself works on these fields of the Uint32 view.               *)
(*   - A colour channel, a UV component and a normal component are exact   *)
(*     rationals: an integer numerator over a denominator that is a power  *)
(*     of two (ColDen, UVDen) or over the L1 norm of the vector, so that   *)
(*     every product and every Math.round / Math.floor of the code is      *)
(*     computed without rounding error.                                    *)
(***************************************************************************)
EXTENDS Integers, Sequences, FiniteSets, TLC

VARIABLES
    pc,          \* position: "idle", a call that returned, or a step of decode
    call,        \* the last call of a numeric codec function: [op, in, out];
                 \* in a sequence of encode / decode calls, the earlier calls
    geometry,    \* the argument of encode (a geometry record), or NoGeometry
    encoded,     \* what encode computed: flags, size, final offset, outcome
    buffer,      \* the byte buffer handed to decode
    offset,      \* decode's read offset
    error,       \* the error decode or encode threw, "" when none
    magic,       \* decode's local copy of the first five bytes
    version,     \* decode's locals, Null / -1 until the step that sets them
    flags,
    vertexCount,
    vertices,
    indices,
    normals,
    uvs,
    colorsRGB,
    colorsRGBA,
    returned     \* the record decode returned, or NoRecord

vars == <<pc, call, geometry, encoded, buffer, offset, error, magic, version,
          flags, vertexCount, vertices, indices, normals, uvs, colorsRGB,
          colorsRGBA, returned>>

codecVars == <<geometry, encoded, buffer, offset, error, magic, version,
               flags, vertexCount, vertices, indices, normals, uvs, colorsRGB,
               colorsRGBA, returned>>

----------------------------------------------------------------------------
(* Bit operations of JavaScript on non-negative 32-bit operands.           *)

RECURSIVE BitAnd(_, _)
BitAnd(a, b) ==
    IF a = 0 \/ b = 0 THEN 0
    ELSE (IF a % 2 = 1 /\ b % 2 = 1 THEN 1 ELSE 0) + 2 * BitAnd(a \div 2, b \div 2)

RECURSIVE BitOr(_, _)
BitOr(a, b) ==
    IF a = 0 THEN b
    ELSE IF b = 0 THEN a
    ELSE (IF a % 2 = 1 \/ b % 2 = 1 THEN 1 ELSE 0) + 2 * BitOr(a \div 2, b \div 2)

Shl(a, n) == a * 2^n

Shr(a, n) == a \div 2^n

----------------------------------------------------------------------------
(* Half-float conversion.                                                  *)

TwoPow16 == 2^16

Half == 0 .. TwoPow16 - 1

F32(s, e, m) == [s |-> s, e |-> e, m |-> m]

\* The value NaN and the value Infinity as JavaScript numbers.
NaN == F32(0, 255, 2^22)

Infinity == F32(0, 255, 0)

IsNaN(f) == f.e = 255 /\ f.m # 0

\* new Float32Array( [ v ] ) viewed as Uint32: the bit patterns the store of
\* the number v can produce.  The store of NaN is implementation-defined:
\* either sign may be written.
Float32Bits(v) ==
    IF IsNaN(v) THEN {F32(0, 255, v.m), F32(1, 255, v.m)} ELSE {v}

\* float32ToFloat16 with the exponent rebased by one too many.
float32ToFloat16_bias16(bits) ==
    LET signBit == Shl(bits.s, 15)
        rawExponent == bits.e
        mantissaBits == Shr(bits.m, 13)
        exponentValue == rawExponent - 127 + 16
    IN  IF exponentValue > 31 THEN BitOr(signBit, 31744)
        ELSE IF exponentValue < -14 THEN signBit
        ELSE IF exponentValue < 1 THEN
            LET denormalizedMantissa ==
                    Shr(BitOr(mantissaBits, 8388608), 1 - exponentValue)
            IN  BitOr(signBit, Shr(denormalizedMantissa, 13))
        ELSE BitOr(BitOr(signBit, Shl(exponentValue, 10)), mantissaBits)

\* float32ToFloat16 with the mantissa rounded to nearest instead of truncated.
float32ToFloat16_roundNearest(bits) ==
    LET signBit == Shl(bits.s, 15)
        rawExponent == bits.e
        mantissaBits == Shr(bits.m + 4096, 13)
        exponentValue == rawExponent - 127 + 15
    IN  IF exponentValue > 31 THEN BitOr(signBit, 31744)
        ELSE IF exponentValue < -14 THEN signBit
        ELSE IF exponentValue < 1 THEN
            LET denormalizedMantissa ==
                    Shr(BitOr(mantissaBits, 8388608), 1 - exponentValue)
            IN  BitOr(signBit, Shr(denormalizedMantissa, 13))
        ELSE signBit + Shl(exponentValue, 10) + mantissaBits

float32ToFloat16(bits) ==
    LET signBit == Shl(bits.s, 15)
        rawExponent == bits.e
        mantissaBits == Shr(bits.m, 13)
        exponentValue == rawExponent - 127 + 15
    IN  IF exponentValue > 31 THEN BitOr(signBit, 31744)
        ELSE IF exponentValue < -14 THEN signBit
        ELSE IF exponentValue < 1 THEN
            LET denormalizedMantissa ==
                    Shr(BitOr(mantissaBits, 8388608), 1 - exponentValue)
            IN  BitOr(signBit, Shr(denormalizedMantissa, 13))
        ELSE BitOr(BitOr(signBit, Shl(exponentValue, 10)), mantissaBits)

\* float16ToFloa32 with the exponent rebased by one too few.
float16ToFloa32_bias126(float16Bits) ==
    LET signBit == Shr(BitAnd(float16Bits, 32768), 15)
        rawExponent == Shr(BitAnd(float16Bits, 31744), 10)
        mantissaBits == Shl(BitAnd(float16Bits, 1023), 13)
    IN  IF rawExponent = 31 THEN (IF float16Bits # 0 THEN NaN ELSE Infinity)
        ELSE LET exponentValue == IF rawExponent = 0 THEN 0
                                  ELSE rawExponent - 15 + 126
             IN  F32(signBit, exponentValue, mantissaBits)

float16ToFloa32(float16Bits) ==
    LET signBit == Shr(BitAnd(float16Bits, 32768), 15)
        rawExponent == Shr(BitAnd(float16Bits, 31744), 10)
        mantissaBits == Shl(BitAnd(float16Bits, 1023), 13)
    IN  IF rawExponent = 31 THEN (IF float16Bits # 0 THEN NaN ELSE Infinity)
        ELSE LET exponentValue == IF rawExponent = 0 THEN 0
                                  ELSE rawExponent - 15 + 127
             IN  F32(signBit, exponentValue, mantissaBits)

----------------------------------------------------------------------------
(* Exact rational arithmetic: the rational n / d with d > 0.               *)

Abs(n) == IF n < 0 THEN -n ELSE n

\* Math.round( n / d ): the nearest integer, a half rounded up.
Round(n, d) == (2 * n + d) \div (2 * d)

\* Math.floor( n / d )
Floor(n, d) == n \div d

----------------------------------------------------------------------------
(* Unit-vector octahedral codec.  A vector is given by three integer       *)
(* numerators over one common positive denominator; the codec divides by   *)
(* the L1 norm first, so the denominator cancels.                          *)

\* v >= 0 ? 1 : - 1
Sign(v) == IF v >= 0 THEN 1 ELSE -1

\* encodeUnitVector with Math.floor in place of Math.round.
encodeUnitVector_floor(x, y, z) ==
    LET l1 == Abs(x) + Abs(y) + Abs(z)
        tempX == (l1 - Abs(y)) * Sign(x)
        tempY == (l1 - Abs(x)) * Sign(y)
        nx == IF z < 0 THEN tempX ELSE x
        ny == IF z < 0 THEN tempY ELSE y
        oct1 == Floor(255 * (nx + l1), 2 * l1)
        oct2 == Floor(255 * (ny + l1), 2 * l1)
    IN  <<oct1, oct2>>

\* nx, ny are kept as numerators over l1 = |x| + |y| + |z| (1 / invL1Norm).
encodeUnitVector(x, y, z) ==
    LET l1 == Abs(x) + Abs(y) + Abs(z)
        tempX == (l1 - Abs(y)) * Sign(x)
        tempY == (l1 - Abs(x)) * Sign(y)
        nx == IF z < 0 THEN tempX ELSE x
        ny == IF z < 0 THEN tempY ELSE y
        oct1 == Round(255 * (nx + l1), 2 * l1)
        oct2 == Round(255 * (ny + l1), 2 * l1)
    IN  <<oct1, oct2>>

\* decodeUnitVector with the length taken from x and y alone.
decodeUnitVector_planarLength(oct1, oct2) ==
    LET x0 == 2 * oct1 - 255
        y0 == 2 * oct2 - 255
        z0 == 255 - Abs(x0) - Abs(y0)
        tempX == (255 - Abs(y0)) * Sign(x0)
        tempY == (255 - Abs(x0)) * Sign(y0)
        x == IF z0 < 0 THEN tempX ELSE x0
        y == IF z0 < 0 THEN tempY ELSE y0
        z == IF z0 < 0 THEN -z0 ELSE z0
    IN  [x |-> x, y |-> y, z |-> z, len2 |-> x * x + y * y]

\* decodeUnitVector that unfolds x and y but leaves z negative.
decodeUnitVector_keepSign(oct1, oct2) ==
    LET x0 == 2 * oct1 - 255
        y0 == 2 * oct2 - 255
        z0 == 255 - Abs(x0) - Abs(y0)
        tempX == (255 - Abs(y0)) * Sign(x0)
        tempY == (255 - Abs(x0)) * Sign(y0)
        x == IF z0 < 0 THEN tempX ELSE x0
        y == IF z0 < 0 THEN tempY ELSE y0
        z == z0
    IN  [x |-> x, y |-> y, z |-> z, len2 |-> x * x + y * y + z * z]

\* x, y, z are kept as numerators over 255.  The result is the vector
\* ( x, y, z ) / length with length = sqrt( len2 ) / 255: the record holds the
\* three numerators and the squared length the code divides them by.
decodeUnitVector(oct1, oct2) ==
    LET x0 == 2 * oct1 - 255
        y0 == 2 * oct2 - 255
        z0 == 255 - Abs(x0) - Abs(y0)
        tempX == (255 - Abs(y0)) * Sign(x0)
        tempY == (255 - Abs(x0)) * Sign(y0)
        x == IF z0 < 0 THEN tempX ELSE x0
        y == IF z0 < 0 THEN tempY ELSE y0
        z == IF z0 < 0 THEN -z0 ELSE z0
    IN  [x |-> x, y |-> y, z |-> z, len2 |-> x * x + y * y + z * z]

----------------------------------------------------------------------------
(* Colour packers.  A channel value is the numerator of a rational over    *)
(* ColDen.                                                                 *)

ColBits == 3

ColDen == 2^ColBits

\* floatToRGB565 with the green channel packed as in RGBA5551.
floatToRGB565_green5(r, g, b) ==
    LET r5 == Round(r * 31, ColDen)
        g5 == Round(g * 31, ColDen)
        b5 == Round(b * 31, ColDen)
    IN  BitOr(BitOr(Shl(r5, 11), Shl(g5, 6)), b5)

floatToRGB565(r, g, b) ==
    LET r5 == Round(r * 31, ColDen)
        g6 == Round(g * 63, ColDen)
        b5 == Round(b * 31, ColDen)
    IN  BitOr(BitOr(Shl(r5, 11), Shl(g6, 5)), b5)

\* rgb565ToFloat with the green field read through the 5-bit mask 0x1F.
rgb565ToFloat_greenMask5(rgb565) ==
    LET r == <<BitAnd(Shr(rgb565, 11), 31), 31>>
        g == <<BitAnd(Shr(rgb565, 5), 31), 63>>
        b == <<BitAnd(rgb565, 31), 31>>
    IN  <<r, g, b>>

\* Each channel is returned as the pair <<numerator, denominator>>.
rgb565ToFloat(rgb565) ==
    LET r == <<BitAnd(Shr(rgb565, 11), 31), 31>>
        g == <<BitAnd(Shr(rgb565, 5), 63), 63>>
        b == <<BitAnd(rgb565, 31), 31>>
    IN  <<r, g, b>>

\* floatToRGBA5551 with the alpha bit rounded: Math.round( a ).
floatToRGBA5551_roundAlpha(r, g, b, a) ==
    LET r5 == Round(r * 31, ColDen)
        g5 == Round(g * 31, ColDen)
        b5 == Round(b * 31, ColDen)
        a1 == IF Round(a, ColDen) >= 1 THEN 1 ELSE 0
    IN  BitOr(BitOr(BitOr(Shl(r5, 11), Shl(g5, 6)), Shl(b5, 1)), a1)

floatToRGBA5551(r, g, b, a) ==
    LET r5 == Round(r * 31, ColDen)
        g5 == Round(g * 31, ColDen)
        b5 == Round(b * 31, ColDen)
        a1 == IF 2 * a > ColDen THEN 1 ELSE 0
    IN  BitOr(BitOr(BitOr(Shl(r5, 11), Shl(g5, 6)), Shl(b5, 1)), a1)

\* rgba5551ToFloat with a set alpha bit unpacked as 0.5.
rgba5551ToFloat_halfAlpha(rgba5551) ==
    LET r == <<BitAnd(Shr(rgba5551, 11), 31), 31>>
        g == <<BitAnd(Shr(rgba5551, 6), 31), 31>>
        b == <<BitAnd(Shr(rgba5551, 1), 31), 31>>
        a == IF BitAnd(rgba5551, 1) # 0 THEN <<1, 2>> ELSE <<0, 1>>
    IN  <<r, g, b, a>>

rgba5551ToFloat(rgba5551) ==
    LET r == <<BitAnd(Shr(rgba5551, 11), 31), 31>>
        g == <<BitAnd(Shr(rgba5551, 6), 31), 31>>
        b == <<BitAnd(Shr(rgba5551, 1), 31), 31>>
        a == IF BitAnd(rgba5551, 1) # 0 THEN <<1, 1>> ELSE <<0, 1>>
    IN  <<r, g, b, a>>

----------------------------------------------------------------------------
(* Version byte codec and the format constants.                            *)

MAGIC == <<82, 65, 87, 71, 68>>

VERSION_MAJOR == 1

VERSION_MINOR == 0

HAS_INDICES == 1

HAS_NORMALS == 2

HAS_UVS == 4

HAS_RGBA5551 == 8

HAS_RGB565 == 16

encodeVersion == BitOr(Shl(VERSION_MAJOR, 4), VERSION_MINOR)

\* decodeVersion with the two nibbles exchanged.
decodeVersion_swappedNibbles(byte) ==
    [major |-> BitAnd(byte, 15), minor |-> BitAnd(Shr(byte, 4), 15)]

decodeVersion(byte) ==
    [major |-> BitAnd(Shr(byte, 4), 15), minor |-> BitAnd(byte, 15)]

----------------------------------------------------------------------------
(* DataView: the bytes a little-endian write stores and the value a        *)
(* little-endian read returns.  A buffer is held in three parts that follow *)
(* one another: head, a sequence of bytes; words, a run of 16-bit          *)
(* little-endian words given by its length and the seed of its values (the *)
(* index data encode writes); tail, a sequence of bytes.  Byte offset k of *)
(* the code is position k + 1 of the three parts laid end to end.          *)

\* view.setUint8( offset, v ): v modulo 2^8
U8Bytes(v) == <<v % 256>>

\* The 16-bit write with the high byte first.
U16Bytes_bigEndian(v) == <<(v \div 256) % 256, v % 256>>

\* view.setUint16( offset, v, true ) and view.setInt16( offset, v, true ):
\* v modulo 2^16, low byte first
U16Bytes(v) == <<v % 256, (v \div 256) % 256>>

\* The bytes of a run of 16-bit little-endian writes, one per element of vals.
U16Run(vals) ==
    [i \in 1 .. 2 * Len(vals) |->
        IF i % 2 = 1 THEN vals[(i + 1) \div 2] % 256
        ELSE (vals[i \div 2] \div 256) % 256]

\* Element i (from 1) of the Uint16Array of indices generated from seed.
IndexValue(seed, i) == (TwoPow16 - 1 + seed + (i - 1) * 7919) % TwoPow16

\* A Uint16Array of indices, held by its length and the seed of its values.
IndexArray(len, seed) == [isNull |-> FALSE, length |-> len, seed |-> seed]

NoWords == [length |-> 0, seed |-> 0]

\* The buffer that holds the bytes of seq and nothing else.
Bytes(seq) == [head |-> seq, words |-> NoWords, tail |-> <<>>]

\* buffer.byteLength
ByteLength(buf) == Len(buf.head) + 2 * buf.words.length + Len(buf.tail)

\* The byte at offset k.  Every getter is guarded by InBounds, so the value
\* given for an offset past the end is never used.
Byte(buf, k) ==
    LET h == Len(buf.head)
        w == 2 * buf.words.length
    IN  IF k < h THEN buf.head[k + 1]
        ELSE IF k < h + w
        THEN LET v == IndexValue(buf.words.seed, ((k - h) \div 2) + 1)
             IN  IF (k - h) % 2 = 0 THEN v % 256 ELSE (v \div 256) % 256
        ELSE IF k < h + w + Len(buf.tail) THEN buf.tail[k - h - w + 1]
        ELSE 0

\* view.getUint8( off )
GetUint8(buf, off) == Byte(buf, off)

\* view.getUint16( off, true )
GetUint16(buf, off) == Byte(buf, off) + 256 * Byte(buf, off + 1)

\* view.getInt16( off, true )
GetInt16(buf, off) ==
    LET u == GetUint16(buf, off)
    IN  IF u >= 32768 THEN u - TwoPow16 ELSE u

\* The getters without their bounds check.
InBounds_unchecked(buf, off, n) == TRUE

\* A read of n bytes at off is inside the view; the getters throw a
\* RangeError otherwise.
InBounds(buf, off, n) == off + n <= ByteLength(buf)

----------------------------------------------------------------------------
Null == [isNull |-> TRUE, data |-> <<>>]

Arr(s) == [isNull |-> FALSE, data |-> s]

----------------------------------------------------------------------------
(* encode.  A geometry record holds vertices (a sequence of 32-bit floats) *)
(* and normals, uvs, colors, each Null or Arr( sequence ), and indices,     *)
(* Null or an IndexArray.                                                  *)
(* normals holds numerators over one denominator, uvs numerators over      *)
(* UVDen, colors numerators over ColDen.                                   *)

UVBits == 2

UVDen == 2^UVBits

\* array[ i ] for a 0-based i; an index past the end reads undefined, which
\* every use below turns into 0 (NaN under Math.round and the bit operators).
At(arr, i) == IF i < Len(arr) THEN arr[i + 1] ELSE 0

\* The number of iterations of  for ( i = 0; i < len; i += step ).
Steps(len, step) == (len + step - 1) \div step

\* The flags with RGBA chosen whenever colors.length is a multiple of 4.
EncodeFlags_multipleOf4(g) ==
    LET f1 == IF ~g.indices.isNull THEN BitOr(0, HAS_INDICES) ELSE 0
        f2 == IF ~g.normals.isNull THEN BitOr(f1, HAS_NORMALS) ELSE f1
        f3 == IF ~g.uvs.isNull THEN BitOr(f2, HAS_UVS) ELSE f2
    IN  IF ~g.colors.isNull
        THEN IF Len(g.colors.data) % 4 = 0
             THEN BitOr(f3, HAS_RGBA5551)
             ELSE BitOr(f3, HAS_RGB565)
        ELSE f3

EncodeFlags(g) ==
    LET f1 == IF ~g.indices.isNull THEN BitOr(0, HAS_INDICES) ELSE 0
        f2 == IF ~g.normals.isNull THEN BitOr(f1, HAS_NORMALS) ELSE f1
        f3 == IF ~g.uvs.isNull THEN BitOr(f2, HAS_UVS) ELSE f2
    IN  IF ~g.colors.isNull
        THEN IF 3 * Len(g.colors.data) = Len(g.vertices) * 4
             THEN BitOr(f3, HAS_RGBA5551)
             ELSE BitOr(f3, HAS_RGB565)
        ELSE f3

\* The size with two bytes counted for every normal component.
EncodeSize_normalComponents(g, f) ==
    LET base == Len(MAGIC) + 1 + 1 + 2 + Len(g.vertices) * 2
        ind == IF BitAnd(f, HAS_INDICES) # 0
               THEN 2 + g.indices.length * 2 ELSE 0
        uv == IF BitAnd(f, HAS_UVS) # 0 THEN Len(g.uvs.data) * 2 ELSE 0
        nrm3 == IF BitAnd(f, HAS_NORMALS) # 0
                THEN 3 * (Len(g.normals.data) * 2) ELSE 0
        col3 == IF BitAnd(f, BitOr(HAS_RGB565, HAS_RGBA5551)) # 0
                THEN IF BitAnd(f, HAS_RGBA5551) # 0
                     THEN 3 * ((Len(g.colors.data) \div 4) * 2)
                     ELSE Len(g.colors.data) * 2
                ELSE 0
    IN  Floor(3 * (base + ind + uv) + nrm3 + col3, 3)

\* The byte length of the ArrayBuffer.  The sum is kept in thirds of a byte,
\* because normals.length * 2 / 3 and colors.length / 3 * 2 need not be whole
\* numbers; new ArrayBuffer( size ) drops the fraction.
EncodeSize(g, f) ==
    LET base == Len(MAGIC) + 1 + 1 + 2 + Len(g.vertices) * 2
        ind == IF BitAnd(f, HAS_INDICES) # 0
               THEN 2 + g.indices.length * 2 ELSE 0
        uv == IF BitAnd(f, HAS_UVS) # 0 THEN Len(g.uvs.data) * 2 ELSE 0
        nrm3 == IF BitAnd(f, HAS_NORMALS) # 0
                THEN Len(g.normals.data) * 2 ELSE 0
        col3 == IF BitAnd(f, BitOr(HAS_RGB565, HAS_RGBA5551)) # 0
                THEN IF BitAnd(f, HAS_RGBA5551) # 0
                     THEN 3 * ((Len(g.colors.data) \div 4) * 2)
                     ELSE Len(g.colors.data) * 2
                ELSE 0
    IN  Floor(3 * (base + ind + uv) + nrm3 + col3, 3)

\* The header with the number of vertex components as the vertex count.
EncodeHeader_componentCount(g, f) ==
    MAGIC \o U8Bytes(encodeVersion) \o U8Bytes(f) \o U16Bytes(Len(g.vertices))

EncodeHeader(g, f) ==
    MAGIC \o U8Bytes(encodeVersion) \o U8Bytes(f) \o U16Bytes(Len(g.vertices) \div 3)

EncodeVertices(g) ==
    U16Run([i \in 1 .. Len(g.vertices) |-> float32ToFloat16(g.vertices[i])])

\* view.setUint16( offset, geometry.indices.length, true )
EncodeIndexCount(g, f) ==
    IF BitAnd(f, HAS_INDICES) # 0 THEN U16Bytes(g.indices.length) ELSE <<>>

\* The run of words the loop over geometry.indices writes.
EncodeIndices(g, f) ==
    IF BitAnd(f, HAS_INDICES) # 0
    THEN [length |-> g.indices.length, seed |-> g.indices.seed]
    ELSE NoWords

EncodeNormals(g, f) ==
    IF BitAnd(f, HAS_NORMALS) # 0
    THEN LET n == g.normals.data
             oct(k) == encodeUnitVector(At(n, 3 * k), At(n, 3 * k + 1), At(n, 3 * k + 2))
         IN  [i \in 1 .. 2 * Steps(Len(n), 3) |->
                 IF i % 2 = 1 THEN oct((i - 1) \div 2)[1] % 256
                 ELSE oct((i - 1) \div 2)[2] % 256]
    ELSE <<>>

\* The uv section with Math.round in place of Math.floor.
EncodeUVs_round(g, f) ==
    IF BitAnd(f, HAS_UVS) # 0
    THEN U16Run([i \in 1 .. Len(g.uvs.data) |->
                    Round(g.uvs.data[i] * 32767, UVDen) % TwoPow16])
    ELSE <<>>

EncodeUVs(g, f) ==
    IF BitAnd(f, HAS_UVS) # 0
    THEN U16Run([i \in 1 .. Len(g.uvs.data) |->
                    Floor(g.uvs.data[i] * 32767, UVDen) % TwoPow16])
    ELSE <<>>

EncodeColors(g, f) ==
    LET c == g.colors.data
    IN  IF BitAnd(f, HAS_RGBA5551) # 0
        THEN U16Run([k \in 1 .. Steps(Len(c), 4) |->
                floatToRGBA5551(At(c, 4 * k - 4), At(c, 4 * k - 3),
                                At(c, 4 * k - 2), At(c, 4 * k - 1))])
        ELSE IF BitAnd(f, HAS_RGB565) # 0
        THEN U16Run([k \in 1 .. Steps(Len(c), 3) |->
                floatToRGB565(At(c, 3 * k - 3), At(c, 3 * k - 2), At(c, 3 * k - 1))])
        ELSE <<>>

\* The value of offset when encode writes the vertex count, the first vertex
\* component, and the first byte of each optional section.
VertexCountOffset == Len(MAGIC) + 1 + 1

VerticesOffset == VertexCountOffset + 2

IndicesOffset(g) == VerticesOffset + 2 * Len(g.vertices)

NormalsOffset(g) ==
    IndicesOffset(g) + (IF g.indices.isNull THEN 0 ELSE 2 + 2 * g.indices.length)

UVsOffset(g) ==
    NormalsOffset(g)
    + (IF g.normals.isNull THEN 0 ELSE 2 * Steps(Len(g.normals.data), 3))

ColorsOffset(g) ==
    UVsOffset(g) + (IF g.uvs.isNull THEN 0 ELSE 2 * Len(g.uvs.data))

\* encode( g ): the flags, the buffer size, the bytes written in order, and
\* the outcome.  The writes are sequential from offset 0, so a write lands
\* outside the buffer (a RangeError of the DataView setter) exactly when more
\* bytes are written than the buffer holds; bytes never written stay 0.
encode(g) ==
    LET f == EncodeFlags(g)
        size == EncodeSize(g, f)
        head == EncodeHeader(g, f) \o EncodeVertices(g) \o EncodeIndexCount(g, f)
        words == EncodeIndices(g, f)
        tail == EncodeNormals(g, f) \o EncodeUVs(g, f) \o EncodeColors(g, f)
        written == Len(head) + 2 * words.length + Len(tail)
    IN  [flags |-> f,
         size |-> size,
         offset |-> written,
         error |-> IF written > size THEN "RangeError" ELSE "",
         buffer |-> IF written > size THEN Bytes(<<>>)
                    ELSE [head |-> head, words |-> words,
                          tail |-> tail \o [i \in 1 .. size - written |-> 0]]]

NoCall == [op |-> "none"]

NoGeometry == [none |-> TRUE]

NoRecord == [none |-> TRUE]

NotEncoded == [none |-> TRUE]

Init ==
    /\ pc = "idle"
    /\ call = NoCall
    /\ geometry = NoGeometry
    /\ encoded = NotEncoded
    /\ buffer = Bytes(<<>>)
    /\ offset = 0
    /\ error = ""
    /\ magic = <<>>
    /\ version = Null
    /\ flags = -1
    /\ vertexCount = -1
    /\ vertices = Null
    /\ indices = Null
    /\ normals = Null
    /\ uvs = Null
    /\ colorsRGB = Null
    /\ colorsRGBA = Null
    /\ returned = NoRecord

----------------------------------------------------------------------------
(* Calls of the half-float functions.                                      *)

\* float32ToFloat16( float16ToFloa32( h ) ) for a 16-bit pattern h.
HalfRoundTrip ==
    /\ pc = "idle"
    /\ \E h \in Half :
        LET single == float16ToFloa32(h)
        IN  \E bits \in Float32Bits(single) :
                call' = [op |-> "halfRoundTrip", in |-> h, mid |-> single,
                         out |-> float32ToFloat16(bits)]
    /\ pc' = "returned"
    /\ UNCHANGED codecVars

\* The float32 values given to float32ToFloat16: either sign, every exponent
\* field, and the mantissas 0, 1, 2^13, 2^22 and 2^23 - 1.
Float32Values ==
    {F32(sg, ex, mt) : sg \in 0 .. 1, ex \in 0 .. 255,
                       mt \in {0, 1, 2^13, 2^22, 2^23 - 1}}

\* float32ToFloat16( float32Value )
Float32ToFloat16 ==
    /\ pc = "idle"
    /\ \E v \in Float32Values :
        \E bits \in Float32Bits(v) :
            call' = [op |-> "float32ToFloat16", in |-> bits,
                     out |-> float32ToFloat16(bits)]
    /\ pc' = "returned"
    /\ UNCHANGED codecVars

NextHalf == HalfRoundTrip \/ Float32ToFloat16

SpecHalf == Init /\ [][NextHalf]_vars

----------------------------------------------------------------------------
(* Calls of the octahedral codec.                                          *)

VecMax == 3

\* n / d + 1/2 is a whole number: Math.round( n / d ) is at a tie.
IsTie(n, d) == (2 * n + d) % (2 * d) = 0

\* One of the two values encodeUnitVector rounds is at a tie.
OctTie(v) ==
    LET l1 == Abs(v[1]) + Abs(v[2]) + Abs(v[3])
        nx == IF v[3] < 0 THEN (l1 - Abs(v[2])) * Sign(v[1]) ELSE v[1]
        ny == IF v[3] < 0 THEN (l1 - Abs(v[1])) * Sign(v[2]) ELSE v[2]
    IN  IsTie(255 * (nx + l1), 2 * l1) \/ IsTie(255 * (ny + l1), 2 * l1)

\* A vector along a coordinate axis: its unit vector has components 0 and
\* +-1, and every step of encodeUnitVector is exact in floating point.
IsAxis(v) == Cardinality({i \in 1 .. 3 : v[i] # 0}) = 1

\* Directions with integer components; the unit vector is v / sqrt( v.v ).
\* The code rounds ( nx * 0.5 + 0.5 ) * 255 computed in floating point, the
\* model rounds the exact rational: the two agree unless the exact value is
\* at a tie that the floating-point value misses, so the directions with such
\* a tie are left out.
Vectors ==
    {v \in (-VecMax .. VecMax) \X (-VecMax .. VecMax) \X (-VecMax .. VecMax) :
        v # <<0, 0, 0>> /\ (IsAxis(v) \/ ~OctTie(v))}

\* decodeUnitVector( ...encodeUnitVector( x, y, z ) )
OctRoundTrip ==
    /\ pc = "idle"
    /\ \E v \in Vectors :
        LET oct == encodeUnitVector(v[1], v[2], v[3])
        IN  call' = [op |-> "octRoundTrip", in |-> v, mid |-> oct,
                     out |-> decodeUnitVector(oct[1], oct[2])]
    /\ pc' = "returned"
    /\ UNCHANGED codecVars

\* decodeUnitVector( oct1, oct2 ) for every pair of bytes
DecodeUnitVector ==
    /\ pc = "idle"
    /\ \E oct1 \in 0 .. 255, oct2 \in 0 .. 255 :
        call' = [op |-> "decodeUnitVector", in |-> <<oct1, oct2>>,
                 out |-> decodeUnitVector(oct1, oct2)]
    /\ pc' = "returned"
    /\ UNCHANGED codecVars

NextOct == OctRoundTrip \/ DecodeUnitVector

SpecOct == Init /\ [][NextOct]_vars

----------------------------------------------------------------------------
(* Calls of the colour packers.                                            *)

Channel == 0 .. ColDen

PackRGB565 ==
    /\ pc = "idle"
    /\ \E r \in Channel, g \in Channel, b \in Channel :
        call' = [op |-> "floatToRGB565", in |-> <<r, g, b>>,
                 out |-> floatToRGB565(r, g, b)]
    /\ pc' = "returned"
    /\ UNCHANGED codecVars

PackRGBA5551 ==
    /\ pc = "idle"
    /\ \E r \in Channel, g \in Channel, b \in Channel, a \in Channel :
        call' = [op |-> "floatToRGBA5551", in |-> <<r, g, b, a>>,
                 out |-> floatToRGBA5551(r, g, b, a)]
    /\ pc' = "returned"
    /\ UNCHANGED codecVars

\* rgb565ToFloat( rgb565 ) on the value floatToRGB565 returned
UnpackRGB565 ==
    /\ pc = "returned"
    /\ call.op = "floatToRGB565"
    /\ call' = [op |-> "rgb565ToFloat", from |-> call.in, in |-> call.out,
                out |-> rgb565ToFloat(call.out)]
    /\ pc' = "unpacked"
    /\ UNCHANGED codecVars

\* rgba5551ToFloat( rgba5551 ) on the value floatToRGBA5551 returned
UnpackRGBA5551 ==
    /\ pc = "returned"
    /\ call.op = "floatToRGBA5551"
    /\ call' = [op |-> "rgba5551ToFloat", from |-> call.in, in |-> call.out,
                out |-> rgba5551ToFloat(call.out)]
    /\ pc' = "unpacked"
    /\ UNCHANGED codecVars

\* rgba5551ToFloat( rgba5551 ) for every 16-bit value
RGBA5551ToFloat ==
    /\ pc = "idle"
    /\ \E p \in Half :
        call' = [op |-> "rgba5551ToFloatOf", in |-> p, out |-> rgba5551ToFloat(p)]
    /\ pc' = "returned"
    /\ UNCHANGED codecVars

NextColor ==
    \/ PackRGB565
    \/ PackRGBA5551
    \/ UnpackRGB565
    \/ UnpackRGBA5551
    \/ RGBA5551ToFloat

SpecColor == Init /\ [][NextColor]_vars

----------------------------------------------------------------------------
(* The arguments of encode.                                                *)

MaxVerts == 2

MaxIdx == 3

MaxWrap == 1

MaxSeed == 1

\* 0, 1, -2, 1.5498046875, 0.1, 2^-15, 2^-34, 70000, Infinity, -Infinity, -0
F32Samples ==
    <<F32(0, 0, 0), F32(0, 127, 0), F32(1, 128, 0), F32(0, 127, 563 * 8192),
      F32(0, 123, 5033165), F32(0, 112, 0), F32(0, 93, 0), F32(0, 143, 571392),
      F32(0, 255, 0), F32(1, 255, 0), F32(1, 0, 0)>>

\* Directions of the normals, none at a rounding tie (see Vectors).
NormalSamples ==
    <<<<0, 1, 0>>, <<0, 0, -1>>, <<1, 1, 1>>, <<-3, 2, -2>>, <<0, -1, 0>>,
      <<2, -3, 3>>>>

Geometry(n, il, hasNormals, hasUVs, cl, seed) ==
    [vertices |->
        [i \in 1 .. 3 * n |-> F32Samples[((seed + i) % Len(F32Samples)) + 1]],
     indices |->
        IF il < 0 THEN Null ELSE IndexArray(il, seed),
     normals |->
        IF ~hasNormals THEN Null
        ELSE Arr([i \in 1 .. 3 * n |->
                NormalSamples[((seed + ((i - 1) \div 3)) % Len(NormalSamples)) + 1]
                             [((i - 1) % 3) + 1]]),
     uvs |->
        IF ~hasUVs THEN Null
        ELSE Arr([i \in 1 .. 2 * n |->
                ((seed * 3 + i * 5) % (2 * UVDen + 1)) - UVDen]),
     colors |->
        IF cl < 0 THEN Null
        ELSE Arr([i \in 1 .. cl |-> (seed * 5 + i * 3) % (ColDen + 1)])]

\* Records with at most MaxVerts vertices and at most MaxIdx indices; normals
\* and uvs have the lengths the data model asks for, colors has any length.
SmallGeometries ==
    {Geometry(n, il, hn, hu, cl, seed) :
        n \in 0 .. MaxVerts, il \in -1 .. MaxIdx, hn \in BOOLEAN, hu \in BOOLEAN,
        cl \in -1 .. 4 * MaxVerts, seed \in 0 .. MaxSeed}

\* Records whose index array has 65535 elements or more.
LargeGeometries ==
    {Geometry(MaxVerts, il, hn, hu, cl, 0) :
        il \in TwoPow16 - 1 .. TwoPow16 - 1 + MaxWrap, hn \in BOOLEAN,
        hu \in BOOLEAN, cl \in {-1, 3 * MaxVerts}}

Geometries == SmallGeometries \cup LargeGeometries

----------------------------------------------------------------------------
(* The arguments of decode that no call of encode produced.                *)

MaxRawVerts == 1

MaxExtra == 1

MaxDelta == 1

Fill(seed, i) == (seed * 37 + i * 101) % 256

\* The bytes a well-formed buffer with flags byte f, n vertices and ic
\* indices holds.
Needed(f, n, ic) ==
    9 + 6 * n
    + (IF BitAnd(f, HAS_INDICES) # 0 THEN 2 + 2 * ic ELSE 0)
    + (IF BitAnd(f, HAS_NORMALS) # 0 THEN 2 * n ELSE 0)
    + (IF BitAnd(f, HAS_UVS) # 0 THEN 4 * n ELSE 0)
    + (IF BitAnd(f, BitOr(HAS_RGBA5551, HAS_RGB565)) # 0 THEN 2 * n ELSE 0)

\* A buffer of len bytes: the given first five bytes, version byte v, flags
\* byte f, vertex count n, index count ic where the index section starts, and
\* filler bytes everywhere else.
RawBuffer(m, v, f, n, ic, len, seed) ==
    Bytes([i \in 1 .. len |->
        IF i <= 5 THEN m[i]
        ELSE IF i = 6 THEN v
        ELSE IF i = 7 THEN f
        ELSE IF i = 8 THEN n % 256
        ELSE IF i = 9 THEN n \div 256
        ELSE IF BitAnd(f, HAS_INDICES) # 0 /\ i = 9 + 6 * n + 1 THEN ic % 256
        ELSE IF BitAnd(f, HAS_INDICES) # 0 /\ i = 9 + 6 * n + 2 THEN ic \div 256
        ELSE Fill(seed, i)])

\* The first five bytes with the positions in S changed by d.
Changed(S, d) == [i \in 1 .. 5 |-> IF i \in S THEN (MAGIC[i] + d) % 256 ELSE MAGIC[i]]

\* Valid magic, every flags byte, every length up to the declared one and
\* MaxExtra bytes beyond it; every version byte on a buffer with no vertices.
ValidMagicBuffers ==
    {RawBuffer(MAGIC, v, f, n, ic, len, 0) :
        v \in {encodeVersion}, f \in 0 .. 31, n \in 0 .. MaxRawVerts,
        ic \in 0 .. MaxIdx, len \in 0 .. 11 + 14 * MaxRawVerts + 2 * MaxIdx + MaxExtra}
    \cup
    {RawBuffer(MAGIC, v, f, n, MaxIdx, Needed(f, n, MaxIdx) + x, 1) :
        v \in {0, 255}, f \in 0 .. 255, n \in 0 .. MaxRawVerts, x \in 0 .. MaxExtra}
    \cup
    {RawBuffer(MAGIC, v, 0, 0, 0, Needed(0, 0, 0), 0) : v \in 0 .. 255}

\* At least one of the first five bytes changed, every length.
BadMagicBuffers ==
    {RawBuffer(Changed(S, d), encodeVersion, f, 1, 0, len, 0) :
        S \in (SUBSET (1 .. 5)) \ {{}}, d \in 1 .. MaxDelta,
        f \in {0, 31}, len \in 0 .. 9 + 14 + MaxExtra}

RawBuffers == ValidMagicBuffers \cup BadMagicBuffers

----------------------------------------------------------------------------
(* encode and decode as steps.                                             *)

decodeLocals == <<magic, version, flags, vertexCount, vertices, indices,
                  normals, uvs, colorsRGB, colorsRGBA>>

\* const buffer = encode( geometry )
Encode ==
    /\ pc = "idle"
    /\ \E g \in Geometries :
        LET r == encode(g)
        IN  /\ geometry' = g
            /\ encoded' = [flags |-> r.flags, size |-> r.size,
                            offset |-> r.offset, error |-> r.error]
            /\ buffer' = r.buffer
            /\ error' = r.error
            /\ pc' = IF r.error = "" THEN "encoded" ELSE "encodeFailed"
    /\ UNCHANGED <<call, offset, decodeLocals, returned>>

\* decode( buffer ) on the buffer encode returned: the DataView and offset = 0
DecodeEncoded ==
    /\ pc = "encoded"
    /\ pc' = "magic"
    /\ offset' = 0
    /\ UNCHANGED <<call, geometry, encoded, buffer, error, decodeLocals, returned>>

\* decode( buffer ) on any other buffer
DecodeRaw ==
    /\ pc = "idle"
    /\ buffer' \in RawBuffers
    /\ pc' = "magic"
    /\ offset' = 0
    /\ UNCHANGED <<call, geometry, encoded, error, decodeLocals, returned>>

\* A getter threw at offset off: decode ends and returns nothing.
Throw(e, off) ==
    /\ error' = e
    /\ offset' = off
    /\ pc' = "failed"
    /\ UNCHANGED <<call, geometry, encoded, buffer, returned>>

\* A step that goes through and clears the bytes it has read in the buffer.
Advance_clearsRead(next, off) ==
    /\ pc' = next
    /\ offset' = off
    /\ buffer' = [buffer EXCEPT !.head = [i \in 1 .. Len(buffer.head) |->
                     IF i <= off THEN 0 ELSE buffer.head[i]]]
    /\ UNCHANGED <<call, geometry, encoded, error, returned>>

\* The step went through: decode goes on at position next with offset off.
Advance(next, off) ==
    /\ pc' = next
    /\ offset' = off
    /\ UNCHANGED <<call, geometry, encoded, buffer, error, returned>>

\* The offset at which the first failing read of a run of w-byte reads from
\* offset is made.
FailAt(w) == offset + w * ((ByteLength(buffer) - offset) \div w)

DecodeReadMagic ==
    /\ pc = "magic"
    /\ IF InBounds(buffer, offset, Len(MAGIC))
       THEN /\ magic' = [i \in 1 .. Len(MAGIC) |-> GetUint8(buffer, offset + i - 1)]
            /\ Advance("check", offset + Len(MAGIC))
            /\ UNCHANGED <<version, flags, vertexCount, vertices, indices,
                           normals, uvs, colorsRGB, colorsRGBA>>
       ELSE /\ Throw("RangeError", ByteLength(buffer) + 1)
            /\ UNCHANGED decodeLocals

\* The comparison of the first byte alone.
MagicMismatch_firstByte(m) == m[1] # MAGIC[1]

\* Some byte read differs from the magic constant.
MagicMismatch(m) == \E i \in 1 .. Len(MAGIC) : m[i] # MAGIC[i]

DecodeCheckMagic ==
    /\ pc = "check"
    /\ IF MagicMismatch(magic)
       THEN Throw("Invalid file format", offset)
       ELSE Advance("version", offset)
    /\ UNCHANGED decodeLocals

\* The version byte read by a decoder that accepts its own version only.
DecodeReadVersion_gated ==
    /\ pc = "version"
    /\ IF ~InBounds(buffer, offset, 1)
       THEN /\ Throw("RangeError", offset + 1)
            /\ UNCHANGED decodeLocals
       ELSE IF GetUint8(buffer, offset) # encodeVersion
       THEN /\ Throw("Unsupported version", offset + 1)
            /\ UNCHANGED decodeLocals
       ELSE /\ version' = Arr(decodeVersion(GetUint8(buffer, offset)))
            /\ Advance("flags", offset + 1)
            /\ UNCHANGED <<magic, flags, vertexCount, vertices, indices,
                           normals, uvs, colorsRGB, colorsRGBA>>

DecodeReadVersion ==
    /\ pc = "version"
    /\ IF InBounds(buffer, offset, 1)
       THEN /\ version' = Arr(decodeVersion(GetUint8(buffer, offset)))
            /\ Advance("flags", offset + 1)
            /\ UNCHANGED <<magic, flags, vertexCount, vertices, indices,
                           normals, uvs, colorsRGB, colorsRGBA>>
       ELSE /\ Throw("RangeError", offset + 1)
            /\ UNCHANGED decodeLocals

DecodeReadFlags ==
    /\ pc = "flags"
    /\ IF InBounds(buffer, offset, 1)
       THEN /\ flags' = GetUint8(buffer, offset)
            /\ Advance("vertexCount", offset + 1)
            /\ UNCHANGED <<magic, version, vertexCount, vertices, indices,
                           normals, uvs, colorsRGB, colorsRGBA>>
       ELSE /\ Throw("RangeError", offset + 1)
            /\ UNCHANGED decodeLocals

DecodeReadVertexCount ==
    /\ pc = "vertexCount"
    /\ IF InBounds(buffer, offset, 2)
       THEN /\ vertexCount' = GetUint16(buffer, offset)
            /\ Advance("vertices", offset + 2)
            /\ UNCHANGED <<magic, version, flags, vertices, indices,
                           normals, uvs, colorsRGB, colorsRGBA>>
       ELSE /\ Throw("RangeError", offset)
            /\ UNCHANGED decodeLocals

DecodeReadVertices ==
    /\ pc = "vertices"
    /\ IF InBounds(buffer, offset, 2 * (vertexCount * 3))
       THEN /\ vertices' = Arr([i \in 1 .. vertexCount * 3 |->
                    float16ToFloa32(GetUint16(buffer, offset + 2 * (i - 1)))])
            /\ Advance("indices", offset + 2 * (vertexCount * 3))
            /\ UNCHANGED <<magic, version, flags, vertexCount, indices,
                           normals, uvs, colorsRGB, colorsRGBA>>
       ELSE /\ Throw("RangeError", FailAt(2))
            /\ UNCHANGED decodeLocals

DecodeReadIndices ==
    /\ pc = "indices"
    /\ IF BitAnd(flags, HAS_INDICES) = 0
       THEN /\ Advance("normals", offset)
            /\ UNCHANGED decodeLocals
       ELSE IF ~InBounds(buffer, offset, 2)
       THEN /\ Throw("RangeError", offset)
            /\ UNCHANGED decodeLocals
       ELSE LET indexCount == GetUint16(buffer, offset)
            IN  IF InBounds(buffer, offset + 2, 2 * indexCount)
                THEN /\ indices' = Arr([i \in 1 .. indexCount |->
                            GetUint16(buffer, offset + 2 + 2 * (i - 1))] \o <<>>)
                     /\ Advance("normals", offset + 2 + 2 * indexCount)
                     /\ UNCHANGED <<magic, version, flags, vertexCount, vertices,
                                    normals, uvs, colorsRGB, colorsRGBA>>
                ELSE /\ Throw("RangeError",
                              offset + 2 + 2 * ((ByteLength(buffer) - offset - 2) \div 2))
                     /\ UNCHANGED decodeLocals

\* Element 3 i + c of the normals array: component c of the vector decoded
\* from byte pair i, as the pair <<numerator, len2>> that stands for
\* numerator / sqrt( len2 ).
NormalAt(buf, off, k) ==
    LET i == k \div 3
        v == decodeUnitVector(GetUint8(buf, off + 2 * i), GetUint8(buf, off + 2 * i + 1))
    IN  <<CASE k % 3 = 0 -> v.x [] k % 3 = 1 -> v.y [] OTHER -> v.z, v.len2>>

DecodeReadNormals ==
    /\ pc = "normals"
    /\ IF BitAnd(flags, HAS_NORMALS) = 0
       THEN /\ Advance("uvs", offset)
            /\ UNCHANGED decodeLocals
       ELSE IF InBounds(buffer, offset, 2 * vertexCount)
       THEN /\ normals' = Arr([k \in 1 .. vertexCount * 3 |->
                    NormalAt(buffer, offset, k - 1)])
            /\ Advance("uvs", offset + 2 * vertexCount)
            /\ UNCHANGED <<magic, version, flags, vertexCount, vertices,
                           indices, uvs, colorsRGB, colorsRGBA>>
       ELSE /\ Throw("RangeError", ByteLength(buffer) + 1)
            /\ UNCHANGED decodeLocals

\* A UV component is the pair <<quantized, 32767>>: quantized / 32767.
DecodeReadUVs ==
    /\ pc = "uvs"
    /\ IF BitAnd(flags, HAS_UVS) = 0
       THEN /\ Advance("colors", offset)
            /\ UNCHANGED decodeLocals
       ELSE IF InBounds(buffer, offset, 2 * (vertexCount * 2))
       THEN /\ uvs' = Arr([i \in 1 .. vertexCount * 2 |->
                    <<GetInt16(buffer, offset + 2 * (i - 1)), 32767>>])
            /\ Advance("colors", offset + 2 * (vertexCount * 2))
            /\ UNCHANGED <<magic, version, flags, vertexCount, vertices,
                           indices, normals, colorsRGB, colorsRGBA>>
       ELSE /\ Throw("RangeError", FailAt(2))
            /\ UNCHANGED decodeLocals

\* Element k of colorsRGBA / colorsRGB (0-based), read at off + 2 * vertex.
RGBAAt(buf, off, k) == rgba5551ToFloat(GetUint16(buf, off + 2 * (k \div 4)))[(k % 4) + 1]

RGBAt(buf, off, k) == rgb565ToFloat(GetUint16(buf, off + 2 * (k \div 3)))[(k % 3) + 1]

\* The colour section read with two independent ifs instead of if / else if.
DecodeReadColors_bothIfs ==
    /\ pc = "colors"
    /\ LET rgba == BitAnd(flags, HAS_RGBA5551) # 0
           rgb == BitAnd(flags, HAS_RGB565) # 0
           mid == IF rgba THEN offset + 2 * vertexCount ELSE offset
           end == IF rgb THEN mid + 2 * vertexCount ELSE mid
       IN  IF InBounds(buffer, offset, end - offset)
           THEN /\ colorsRGBA' = IF rgba
                                 THEN Arr([k \in 1 .. vertexCount * 4 |->
                                         RGBAAt(buffer, offset, k - 1)])
                                 ELSE colorsRGBA
                /\ colorsRGB' = IF rgb
                                THEN Arr([k \in 1 .. vertexCount * 3 |->
                                        RGBAt(buffer, mid, k - 1)])
                                ELSE colorsRGB
                /\ Advance("return", end)
                /\ UNCHANGED <<magic, version, flags, vertexCount, vertices,
                               indices, normals, uvs>>
           ELSE /\ Throw("RangeError", FailAt(2))
                /\ UNCHANGED decodeLocals

DecodeReadColors ==
    /\ pc = "colors"
    /\ IF BitAnd(flags, HAS_RGBA5551) # 0
       THEN IF InBounds(buffer, offset, 2 * vertexCount)
            THEN /\ colorsRGBA' = Arr([k \in 1 .. vertexCount * 4 |->
                        RGBAAt(buffer, offset, k - 1)])
                 /\ Advance("return", offset + 2 * vertexCount)
                 /\ UNCHANGED <<magic, version, flags, vertexCount, vertices,
                                indices, normals, uvs, colorsRGB>>
            ELSE /\ Throw("RangeError", FailAt(2))
                 /\ UNCHANGED decodeLocals
       ELSE IF BitAnd(flags, HAS_RGB565) # 0
       THEN IF InBounds(buffer, offset, 2 * vertexCount)
            THEN /\ colorsRGB' = Arr([k \in 1 .. vertexCount * 3 |->
                        RGBAt(buffer, offset, k - 1)])
                 /\ Advance("return", offset + 2 * vertexCount)
                 /\ UNCHANGED <<magic, version, flags, vertexCount, vertices,
                                indices, normals, uvs, colorsRGBA>>
            ELSE /\ Throw("RangeError", FailAt(2))
                 /\ UNCHANGED decodeLocals
       ELSE /\ Advance("return", offset)
            /\ UNCHANGED decodeLocals

\* The return of a decoder that rejects a buffer it has not read to the end.
DecodeReturn_checkConsumed ==
    /\ pc = "return"
    /\ IF offset # ByteLength(buffer)
       THEN /\ Throw("Trailing bytes", offset)
            /\ UNCHANGED decodeLocals
       ELSE /\ returned' = [version |-> version.data, vertices |-> vertices.data,
                            indices |-> indices, normals |-> normals, uvs |-> uvs,
                            colorsRGB |-> colorsRGB, colorsRGBA |-> colorsRGBA]
            /\ pc' = "done"
            /\ UNCHANGED <<call, geometry, encoded, buffer, offset, error,
                           decodeLocals>>

\* return { version, vertices, indices, normals, uvs, colorsRGB, colorsRGBA }
DecodeReturn ==
    /\ pc = "return"
    /\ returned' = [version |-> version.data, vertices |-> vertices.data,
                    indices |-> indices, normals |-> normals, uvs |-> uvs,
                    colorsRGB |-> colorsRGB, colorsRGBA |-> colorsRGBA]
    /\ pc' = "done"
    /\ UNCHANGED <<call, geometry, encoded, buffer, offset, error, decodeLocals>>

Next ==
    \/ Encode
    \/ DecodeEncoded
    \/ DecodeRaw
    \/ DecodeReadMagic
    \/ DecodeCheckMagic
    \/ DecodeReadVersion
    \/ DecodeReadFlags
    \/ DecodeReadVertexCount
    \/ DecodeReadVertices
    \/ DecodeReadIndices
    \/ DecodeReadNormals
    \/ DecodeReadUVs
    \/ DecodeReadColors
    \/ DecodeReturn

Spec == Init /\ [][Next]_vars

----------------------------------------------------------------------------
(* Sequences of calls.  A caller makes up to MaxCalls calls of encode and  *)
(* decode, one after the other.  It keeps the geometry it built and passes *)
(* the same object to every encode; it passes to decode the buffer it got  *)
(* last, a buffer it passed before, or a copy with another version byte    *)
(* and other unused flag bits, or with one more byte at the end.  call     *)
(* holds the calls that ended before the current one: [fn, arg, threw,     *)
(* out].                                                                   *)

MaxCalls == 3

CallLog == IF call.op = "calls" THEN call.log ELSE <<>>

EncodeEnded == pc \in {"encoded", "encodeFailed"}

DecodeEnded == pc \in {"done", "failed"}

\* The call that has just ended: its argument as it is now, whether it
\* threw, and what it returned (the error when it threw).
Ended ==
    [fn |-> IF DecodeEnded THEN "decode" ELSE "encode",
     arg |-> IF DecodeEnded THEN buffer ELSE geometry,
     threw |-> pc \in {"failed", "encodeFailed"},
     out |-> IF pc = "done" THEN returned
             ELSE IF pc = "encoded" THEN buffer
             ELSE [error |-> error]]

\* No call is running and the caller has calls left.
CanCall ==
    \/ pc = "idle"
    \/ (EncodeEnded \/ DecodeEnded) /\ Len(CallLog) + 1 < MaxCalls

Logged ==
    IF pc = "idle" THEN call
    ELSE [op |-> "calls", log |-> Append(CallLog, Ended)]

\* The locals of decode are created by the call.
FreshLocals ==
    /\ magic' = <<>>
    /\ version' = Null
    /\ flags' = -1
    /\ vertexCount' = -1
    /\ vertices' = Null
    /\ indices' = Null
    /\ normals' = Null
    /\ uvs' = Null
    /\ colorsRGB' = Null
    /\ colorsRGBA' = Null

\* The geometries the caller builds: vertices only; every optional array with
\* RGBA colours; indices, normals and RGB colours; and one whose colour array
\* fits neither format, on which encode throws.
CallGeometries ==
    {Geometry(1, -1, FALSE, FALSE, -1, 0), Geometry(1, 2, TRUE, TRUE, 4, 0),
     Geometry(1, 1, TRUE, FALSE, 3, 1), Geometry(2, -1, FALSE, FALSE, 4, 0)}

\* The buffers the caller starts from: well-formed ones with each section
\* alone and with all of them, the same cut short by one byte, and one with
\* a wrong magic.
CallBuffers ==
    {RawBuffer(MAGIC, encodeVersion, f, MaxRawVerts, 1,
               Needed(f, MaxRawVerts, 1) - cut, 1) :
        f \in {0, HAS_INDICES, HAS_NORMALS, HAS_UVS, HAS_RGBA5551, HAS_RGB565, 31},
        cut \in 0 .. 1}
    \cup
    {RawBuffer(Changed({1}, 1), encodeVersion, 0, 0, 0, Needed(0, 0, 0), 1)}

\* A copy of buf with version byte v and the three unused flag bits set to u.
WithHeader(buf, v, u) ==
    [buf EXCEPT !.head = [i \in 1 .. Len(buf.head) |->
        IF i = 6 THEN v
        ELSE IF i = 7 THEN (buf.head[i] % 32) + u
        ELSE buf.head[i]]]

\* A copy of buf followed by the bytes t.
WithTrailing(buf, t) == [buf EXCEPT !.tail = @ \o t]

Variants(buf) ==
    {WithHeader(buf, encodeVersion, 0), WithHeader(buf, 255, 224)}
    \cup {WithTrailing(buf, <<x>>) : x \in {0, 255}}

\* The arguments of the next decode call.
DecodeArgs ==
    IF pc = "idle" THEN CallBuffers
    ELSE Variants(buffer)
         \cup {CallLog[i].arg : i \in {j \in 1 .. Len(CallLog) :
                                          CallLog[j].fn = "decode"}}

\* const buffer = encode( geometry )
CallEncode ==
    /\ CanCall
    /\ \E g \in IF geometry = NoGeometry THEN CallGeometries ELSE {geometry} :
        LET r == encode(g)
        IN  /\ geometry' = g
            /\ encoded' = [flags |-> r.flags, size |-> r.size,
                            offset |-> r.offset, error |-> r.error]
            /\ buffer' = r.buffer
            /\ error' = r.error
            /\ pc' = IF r.error = "" THEN "encoded" ELSE "encodeFailed"
    /\ call' = Logged
    /\ offset' = 0
    /\ FreshLocals
    /\ returned' = NoRecord

\* decode( buffer ): the DataView and offset = 0
CallDecode ==
    /\ CanCall
    /\ buffer' \in DecodeArgs
    /\ call' = Logged
    /\ pc' = "magic"
    /\ offset' = 0
    /\ error' = ""
    /\ FreshLocals
    /\ returned' = NoRecord
    /\ UNCHANGED <<geometry, encoded>>

NextCalls ==
    \/ CallEncode
    \/ CallDecode
    \/ DecodeReadMagic
    \/ DecodeCheckMagic
    \/ DecodeReadVersion
    \/ DecodeReadFlags
    \/ DecodeReadVertexCount
    \/ DecodeReadVertices
    \/ DecodeReadIndices
    \/ DecodeReadNormals
    \/ DecodeReadUVs
    \/ DecodeReadColors
    \/ DecodeReturn

SpecCalls == Init /\ [][NextCalls]_vars

----------------------------------------------------------------------------
(* Properties of encode and decode.                                        *)

\* decode has been called on the buffer.
Decoding ==
    pc \in {"magic", "check", "version", "flags", "vertexCount", "vertices",
            "indices", "normals", "uvs", "colors", "return", "done", "failed"}

\* The buffer decode works on came from encode( geometry ).
RoundTrip == Decoding /\ geometry # NoGeometry

VertexCountOf(g) == Len(g.vertices) \div 3

\* The length preconditions of the data model, with at most 65535 vertices.
Pre(g) ==
    LET n == VertexCountOf(g)
    IN  /\ Len(g.vertices) = 3 * n
        /\ n <= 65535
        /\ g.normals.isNull \/ Len(g.normals.data) = 3 * n
        /\ g.uvs.isNull \/ Len(g.uvs.data) = 2 * n
        /\ g.colors.isNull \/ Len(g.colors.data) \in {3 * n, 4 * n}

\* What decode returns for an attribute when it reads the bytes encode wrote
\* for that attribute.
OwnNormals(g) ==
    IF g.normals.isNull THEN Null
    ELSE Arr([k \in 1 .. 3 * VertexCountOf(g) |->
            NormalAt(Bytes(EncodeNormals(g, HAS_NORMALS)), 0, k - 1)])

OwnUVs(g) ==
    IF g.uvs.isNull THEN Null
    ELSE Arr([i \in 1 .. 2 * VertexCountOf(g) |->
            <<GetInt16(Bytes(EncodeUVs(g, HAS_UVS)), 2 * (i - 1)), 32767>>])

OwnRGBA(g) ==
    IF g.colors.isNull \/ Len(g.colors.data) # 4 * VertexCountOf(g) THEN Null
    ELSE Arr([k \in 1 .. 4 * VertexCountOf(g) |->
            RGBAAt(Bytes(EncodeColors(g, HAS_RGBA5551)), 0, k - 1)])

OwnRGB(g) ==
    IF g.colors.isNull \/ Len(g.colors.data) = 4 * VertexCountOf(g) THEN Null
    ELSE Arr([k \in 1 .. 3 * VertexCountOf(g) |->
            RGBAt(Bytes(EncodeColors(g, HAS_RGB565)), 0, k - 1)])

\* C3: for every geometry record with indices, of any length and with values
\* in 0..65535, decode( encode( g ) ) succeeds, its indices equal g.indices in
\* length and element by element, and the attributes after the indices are
\* decoded from their own bytes.
C3_IndexRoundTrip ==
    (RoundTrip /\ Pre(geometry) /\ ~geometry.indices.isNull) =>
        /\ error = ""
        /\ pc = "done" =>
            /\ Len(returned.indices.data) = geometry.indices.length
            /\ \A i \in 1 .. Len(returned.indices.data) :
                    returned.indices.data[i] = IndexValue(geometry.indices.seed, i)
            /\ returned.normals = OwnNormals(geometry)
            /\ returned.uvs = OwnUVs(geometry)
            /\ returned.colorsRGBA = OwnRGBA(geometry)
            /\ returned.colorsRGB = OwnRGB(geometry)

\* The buffer has five bytes or more and one of the first five is not the
\* magic byte.
BadMagic(buf) ==
    /\ ByteLength(buf) >= 5
    /\ \E i \in 1 .. 5 : Byte(buf, i - 1) # <<82, 65, 87, 71, 68>>[i]

\* C4: for every buffer of at least 5 bytes whose first 5 bytes differ from
\* the magic, decode throws 'Invalid file format' right after reading them:
\* it reads nothing past offset 5 (version, flags and counts stay unread) and
\* returns no record.
C4_FormatRejection ==
    (Decoding /\ BadMagic(buffer)) =>
        /\ pc \in {"magic", "check", "failed"}
        /\ pc = "failed" => (error = "Invalid file format" /\ offset = 5)
        /\ pc # "failed" => error = ""
        /\ offset <= 5
        /\ version = Null /\ flags = -1 /\ vertexCount = -1 /\ vertices = Null
        /\ returned = NoRecord

\* Only the fifth byte is wrong, and the buffer holds a whole header.
C4_Witness ==
    /\ pc = "failed"
    /\ error = "Invalid file format"
    /\ ByteLength(buffer) >= 9
    /\ \A i \in 1 .. 4 : Byte(buffer, i - 1) = MAGIC[i]

Bit(f, b) == (f \div b) % 2 = 1

\* C5: the flags byte encode writes never has both colour flags; it has
\* 0x08 iff colors is present with length vertexCount * 4, 0x10 iff colors is
\* present with any other length, and neither iff colors is absent.
C5_EncoderColourFlag ==
    geometry # NoGeometry =>
        LET f == encoded.flags
            present == ~geometry.colors.isNull
            four == present /\ Len(geometry.colors.data) = VertexCountOf(geometry) * 4
        IN  /\ ~(Bit(f, 8) /\ Bit(f, 16))
            /\ Bit(f, 8) <=> four
            /\ Bit(f, 16) <=> (present /\ ~four)
            /\ (~Bit(f, 8) /\ ~Bit(f, 16)) <=> ~present

\* encode returned a buffer for two vertices with six colour components
C5_Witness ==
    /\ pc = "encoded"
    /\ ~geometry.colors.isNull
    /\ Len(geometry.colors.data) = 6
    /\ VertexCountOf(geometry) = 2
    /\ Byte(buffer, 6) = encoded.flags
    /\ Bit(encoded.flags, 16)

\* C6: for every flags byte, a decode that returns gives exactly one of
\* colorsRGB / colorsRGBA non-null when a colour flag is set and both null
\* when none is.
C6_DecoderColourExclusive ==
    pc = "done" =>
        LET rgb == ~returned.colorsRGB.isNull
            rgba == ~returned.colorsRGBA.isNull
        IN  IF Bit(flags, 8) \/ Bit(flags, 16)
            THEN (rgb \/ rgba) /\ ~(rgb /\ rgba)
            ELSE ~rgb /\ ~rgba

\* every flag bit set, the two colour flags among them
C6_Witness == pc = "done" /\ flags = 255 /\ vertexCount > 0

\* C7: for every record g that meets the length preconditions,
\* decode( encode( g ) ) returns a record with as many vertex components as g,
\* with indices, normals and uvs non-null exactly when g has them, normals of
\* length 3 * vertexCount, uvs of length 2 * vertexCount, and the colours in
\* colorsRGBA (length 4 * vertexCount) or colorsRGB (length 3 * vertexCount)
\* according to the variant g has.
C7_RoundTripShape ==
    (RoundTrip /\ Pre(geometry)) =>
        /\ error = ""
        /\ pc = "done" =>
            LET g == geometry
                d == returned
                n == VertexCountOf(g)
                four == ~g.colors.isNull /\ Len(g.colors.data) = 4 * n
                three == ~g.colors.isNull /\ ~four
            IN  /\ Len(d.vertices) = Len(g.vertices)
                /\ d.indices.isNull <=> g.indices.isNull
                /\ d.normals.isNull <=> g.normals.isNull
                /\ d.uvs.isNull <=> g.uvs.isNull
                /\ ~d.normals.isNull => Len(d.normals.data) = 3 * n
                /\ ~d.uvs.isNull => Len(d.uvs.data) = 2 * n
                /\ ~d.colorsRGBA.isNull <=> four
                /\ ~d.colorsRGB.isNull <=> three
                /\ four => Len(d.colorsRGBA.data) = 4 * n
                /\ three => Len(d.colorsRGB.data) = 3 * n

\* every attribute present, RGB colours
C7_Witness ==
    /\ pc = "done"
    /\ geometry # NoGeometry
    /\ Pre(geometry)
    /\ VertexCountOf(geometry) = 2
    /\ ~geometry.indices.isNull /\ ~geometry.normals.isNull /\ ~geometry.uvs.isNull
    /\ ~geometry.colors.isNull /\ Len(geometry.colors.data) = 6

\* The buffer is shorter than 5 bytes, or it starts with the magic and holds
\* fewer bytes than its flags, vertex count and index count declare.
Truncated(buf) ==
    \/ ByteLength(buf) < 5
    \/ /\ ~BadMagic(buf)
       /\ \/ ByteLength(buf) < 9
          \/ LET f == Byte(buf, 6)
                 n == Byte(buf, 7) + 256 * Byte(buf, 8)
                 io == 9 + 6 * n
             IN  IF Bit(f, 1)
                 THEN \/ ByteLength(buf) < io + 2
                      \/ ByteLength(buf) <
                            Needed(f, n, Byte(buf, io) + 256 * Byte(buf, io + 1))
                 ELSE ByteLength(buf) < Needed(f, n, 0)

\* C8: for every truncated buffer decode ends in an out-of-bounds failure,
\* which is not the 'Invalid file format' error, and returns no record.
C8_TruncatedInput ==
    (Decoding /\ Truncated(buffer)) =>
        /\ pc \notin {"return", "done"}
        /\ returned = NoRecord
        /\ pc = "failed" => error = "RangeError"
        /\ pc # "failed" => error = ""

\* the buffer ends inside the index section
C8_Witness ==
    /\ pc = "failed"
    /\ error = "RangeError"
    /\ ByteLength(buffer) > 9
    /\ ~indices.isNull \/ (flags >= 0 /\ Bit(flags, 1) /\ ~vertices.isNull)

----------------------------------------------------------------------------
(* The packers applied to what the unpackers return.  The channels are the *)
(* pairs <<numerator, denominator>> of rgb565ToFloat and rgba5551ToFloat,  *)
(* so r * 31 is numerator * 31 / denominator.                              *)

floatToRGB565OfPairs(c) ==
    LET r5 == Round(c[1][1] * 31, c[1][2])
        g6 == Round(c[2][1] * 63, c[2][2])
        b5 == Round(c[3][1] * 31, c[3][2])
    IN  BitOr(BitOr(Shl(r5, 11), Shl(g6, 5)), b5)

floatToRGBA5551OfPairs(c) ==
    LET r5 == Round(c[1][1] * 31, c[1][2])
        g5 == Round(c[2][1] * 31, c[2][2])
        b5 == Round(c[3][1] * 31, c[3][2])
        a1 == IF 2 * c[4][1] > c[4][2] THEN 1 ELSE 0
    IN  BitOr(BitOr(BitOr(Shl(r5, 11), Shl(g5, 6)), Shl(b5, 1)), a1)

\* floatToRGB565( ...rgb565ToFloat( p ) ) for every 16-bit value
RequantizeRGB565 ==
    /\ pc = "idle"
    /\ \E p \in Half :
        LET c == rgb565ToFloat(p)
        IN  call' = [op |-> "requantizeRGB565", in |-> p, mid |-> c,
                     out |-> floatToRGB565OfPairs(c)]
    /\ pc' = "returned"
    /\ UNCHANGED codecVars

\* floatToRGBA5551( ...rgba5551ToFloat( p ) ) for every 16-bit value
RequantizeRGBA5551 ==
    /\ pc = "idle"
    /\ \E p \in Half :
        LET c == rgba5551ToFloat(p)
        IN  call' = [op |-> "requantizeRGBA5551", in |-> p, mid |-> c,
                     out |-> floatToRGBA5551OfPairs(c)]
    /\ pc' = "returned"
    /\ UNCHANGED codecVars

NextRequantize == RequantizeRGB565 \/ RequantizeRGBA5551

SpecRequantize == Init /\ [][NextRequantize]_vars

----------------------------------------------------------------------------
(* Properties of the numeric codec.                                        *)

\* A 16-bit pattern that denotes a half-precision value: not a NaN.
IsHalfValue(h) == ~((h \div 1024) % 32 = 31 /\ h % 1024 # 0)

\* C1: for every 16-bit pattern h that denotes a half-precision value (zeros,
\* subnormals, normals, the two infinities),
\* float32ToFloat16( float16ToFloa32( h ) ) is h.
C1_HalfRoundTrip ==
    (call.op = "halfRoundTrip" /\ IsHalfValue(call.in)) => call.out = call.in

\* floor( 100 * num / sqrt( sq ) ) for |num| <= sqrt( sq ): the component
\* num / sqrt( sq ) of a unit vector in hundredths, rounded down.
FloorHundredths(num, sq) ==
    IF num >= 0
    THEN CHOOSE t \in 0 .. 100 :
            t * t * sq <= 10000 * num * num /\ 10000 * num * num < (t + 1) * (t + 1) * sq
    ELSE -(CHOOSE t \in 1 .. 100 :
            (t - 1) * (t - 1) * sq < 10000 * num * num /\ 10000 * num * num <= t * t * sq)

\* Two reals that differ by at most 0.01 have floors of their hundredths that
\* differ by at most 1.
WithinHundredth(num1, sq1, num2, sq2) ==
    Abs(FloorHundredths(num1, sq1) - FloorHundredths(num2, sq2)) <= 1

Dot(v) == v[1] * v[1] + v[2] * v[2] + v[3] * v[3]

\* C2: for every unit vector v, in the upper and in the lower hemisphere,
\* decodeUnitVector( encodeUnitVector( v ) ) matches v in each of the three
\* components within 0.01.
C2_OctRoundTrip ==
    call.op = "octRoundTrip" =>
        /\ WithinHundredth(call.out.x, call.out.len2, call.in[1], Dot(call.in))
        /\ WithinHundredth(call.out.y, call.out.len2, call.in[2], Dot(call.in))
        /\ WithinHundredth(call.out.z, call.out.len2, call.in[3], Dot(call.in))

\* q is Math.round( n / d ): q - 1/2 <= n / d < q + 1/2.
IsRounded(q, n, d) == 2 * q * d <= 2 * n + d /\ 2 * n + d < 2 * (q + 1) * d

\* C9: for r, g, b in [0,1], floatToRGB565( r, g, b ) is a value in 0..65535
\* whose bits 11..15 are round( 31 r ), bits 5..10 round( 63 g ) and bits 0..4
\* round( 31 b ); (1,0,0) gives 0xF800, (0,1,0) 0x07E0 and (0,0,1) 0x001F.
C9_RGB565Packing ==
    call.op = "floatToRGB565" =>
        LET p == call.out
            r == call.in[1]
            g == call.in[2]
            b == call.in[3]
        IN  /\ p \in 0 .. 65535
            /\ IsRounded(p \div 2048, 31 * r, ColDen)
            /\ IsRounded((p \div 32) % 64, 63 * g, ColDen)
            /\ IsRounded(p % 32, 31 * b, ColDen)
            /\ (call.in = <<ColDen, 0, 0>> => p = 63488)
            /\ (call.in = <<0, ColDen, 0>> => p = 2016)
            /\ (call.in = <<0, 0, ColDen>> => p = 31)

\* r = 0.5 (a rounding tie, 15.5), g = 1, b = 1 / ColDen
C9_Witness ==
    /\ call.op = "floatToRGB565"
    /\ call.in = <<ColDen \div 2, ColDen, 1>>
    /\ call.out \div 2048 = 16

ChannelClose(ch, c) == 20 * Abs(ch[1] * ColDen - c * ch[2]) <= ch[2] * ColDen

\* C11: for r, g, b in [0,1], rgb565ToFloat( floatToRGB565( r, g, b ) ) and
\* the first three values of rgba5551ToFloat( floatToRGBA5551( r, g, b, a ) )
\* are each within 0.05 of r, g, b; the alpha returned is 0 or 1, and is the
\* alpha given when that is 0 or 1.
C11_ColourRoundTrip ==
    /\ call.op = "rgb565ToFloat" =>
            \A i \in 1 .. 3 : ChannelClose(call.out[i], call.from[i])
    /\ call.op = "rgba5551ToFloat" =>
            /\ \A i \in 1 .. 3 : ChannelClose(call.out[i], call.from[i])
            /\ call.out[4] \in {<<0, 1>>, <<1, 1>>}
            /\ call.from[4] = 0 => call.out[4] = <<0, 1>>
            /\ call.from[4] = ColDen => call.out[4] = <<1, 1>>

\* ( 0.5, 0.75, 0.875, 1 ) through RGBA5551 and back
C11_Witness ==
    /\ call.op = "rgba5551ToFloat"
    /\ call.from = <<ColDen \div 2, (3 * ColDen) \div 4, (7 * ColDen) \div 8, ColDen>>
    /\ call.out = <<<<16, 31>>, <<23, 31>>, <<27, 31>>, <<1, 1>>>>

\* C12: float32ToFloat16 maps 0 to 0x0000, 1 to 0x3C00, -2 to 0xC000,
\* Infinity to 0x7C00 and -Infinity to 0xFC00.
C12_HalfSpecialValues ==
    call.op = "float32ToFloat16" =>
        /\ call.in = F32(0, 0, 0) => call.out = 0
        /\ call.in = F32(0, 127, 0) => call.out = 15360
        /\ call.in = F32(1, 128, 0) => call.out = 49152
        /\ call.in = Infinity => call.out = 31744
        /\ call.in = F32(1, 255, 0) => call.out = 64512

\* float32ToFloat16( - Infinity )
C12_Witness ==
    /\ call.op = "float32ToFloat16"
    /\ call.in = F32(1, 255, 0)
    /\ call.out = 64512

C14_DecodedUnitLength ==
    call.op = "decodeUnitVector" =>
        LET v == call.out
        IN  /\ v.len2 > 0
            /\ v.x * v.x + v.y * v.y + v.z * v.z = v.len2
            /\ <<v.x, v.y, v.z>> # <<0, 0, 0>>

\* the centre of the map, where x and y are smallest
C14_Witness ==
    /\ call.op = "decodeUnitVector"
    /\ call.in = <<128, 127>>
    /\ call.out = [x |-> 1, y |-> -1, z |-> 253, len2 |-> 64011]

\* The 16-bit little-endian unsigned value at offset off.
LE16(buf, off) == Byte(buf, off) + 256 * Byte(buf, off + 1)

\* C15: in every buffer encode returns, bytes 0..4 are the magic, byte 5 the
\* version byte, byte 6 the flags byte, bytes 7..8 the vertex count, the
\* vertex half-floats start at offset 9, and the optional sections follow in
\* the order indices (count, then values), normals (2 bytes per vertex), uvs
\* (an int16 per component), colours (16 bits per colour), every 16-bit value
\* low byte first.
C15_BinaryLayout ==
    pc = "encoded" =>
        LET g == geometry
            io == 9 + 2 * Len(g.vertices)
            no == io + (IF g.indices.isNull THEN 0 ELSE 2 + 2 * g.indices.length)
            uo == no + (IF g.normals.isNull THEN 0 ELSE 2 * VertexCountOf(g))
            co == uo + (IF g.uvs.isNull THEN 0 ELSE 4 * VertexCountOf(g))
        IN  /\ \A i \in 1 .. 5 : Byte(buffer, i - 1) = <<82, 65, 87, 71, 68>>[i]
            /\ Byte(buffer, 5) = 16 * VERSION_MAJOR + VERSION_MINOR
            /\ Byte(buffer, 6) = encoded.flags
            /\ LE16(buffer, 7) = VertexCountOf(g)
            /\ \A i \in 1 .. Len(g.vertices) :
                    LE16(buffer, 9 + 2 * (i - 1)) = float32ToFloat16(g.vertices[i])
            /\ ~g.indices.isNull =>
                    /\ LE16(buffer, io) = g.indices.length % TwoPow16
                    /\ \A i \in 1 .. g.indices.length :
                            LE16(buffer, io + 2 * i) = IndexValue(g.indices.seed, i)
            /\ ~g.normals.isNull =>
                    \A k \in 0 .. VertexCountOf(g) - 1 :
                        <<Byte(buffer, no + 2 * k), Byte(buffer, no + 2 * k + 1)>> =
                            encodeUnitVector(g.normals.data[3 * k + 1],
                                             g.normals.data[3 * k + 2],
                                             g.normals.data[3 * k + 3])
            /\ ~g.uvs.isNull =>
                    \A i \in 1 .. 2 * VertexCountOf(g) :
                        GetInt16(buffer, uo + 2 * (i - 1)) =
                            Floor(32767 * g.uvs.data[i], UVDen)
            /\ Bit(encoded.flags, 8) =>
                    \A k \in 0 .. (Len(g.colors.data) \div 4) - 1 :
                        LE16(buffer, co + 2 * k) =
                            floatToRGBA5551(g.colors.data[4 * k + 1], g.colors.data[4 * k + 2],
                                            g.colors.data[4 * k + 3], g.colors.data[4 * k + 4])
            /\ Bit(encoded.flags, 16) =>
                    \A k \in 0 .. (Len(g.colors.data) \div 3) - 1 :
                        LE16(buffer, co + 2 * k) =
                            floatToRGB565(g.colors.data[3 * k + 1], g.colors.data[3 * k + 2],
                                          g.colors.data[3 * k + 3])
            /\ <<io, no, uo, co>> =
                   <<IndicesOffset(g), NormalsOffset(g), UVsOffset(g), ColorsOffset(g)>>

\* every section present: two vertices, three indices, RGBA colours
C15_Witness ==
    /\ pc = "encoded"
    /\ encoded.flags = 15
    /\ VertexCountOf(geometry) = 2
    /\ geometry.indices.length = 3
    /\ ByteLength(buffer) = 45

\* C16: for every geometry record that meets the length preconditions, with
\* N vertices and I indices, the buffer encode returns has
\* 9 + 6 N + ( 2 + 2 I if indices ) + ( 2 N if normals ) + ( 4 N if uvs )
\* + ( 2 N if colors ) bytes, no write of encode falls outside it, and the
\* offset after the last write is its length.
C16_ExactSize ==
    (geometry # NoGeometry /\ Pre(geometry)) =>
        LET g == geometry
            N == VertexCountOf(g)
            expected == 9 + 6 * N
                        + (IF g.indices.isNull THEN 0 ELSE 2 + 2 * g.indices.length)
                        + (IF g.normals.isNull THEN 0 ELSE 2 * N)
                        + (IF g.uvs.isNull THEN 0 ELSE 4 * N)
                        + (IF g.colors.isNull THEN 0 ELSE 2 * N)
        IN  /\ pc # "encodeFailed"
            /\ encoded.error = ""
            /\ encoded.size = expected
            /\ encoded.offset = expected
            /\ ByteLength(buffer) = expected

\* two vertices with normals, uvs and RGB colours, no indices
C16_Witness ==
    /\ pc = "encoded"
    /\ encoded.flags = 22
    /\ VertexCountOf(geometry) = 2
    /\ encoded.offset = 37
    /\ ByteLength(buffer) = 37

\* C17: encodeVersion returns 16, major 1 in the high nibble and minor 0 in
\* the low one; for every byte b, decodeVersion( b ) returns major = b >> 4
\* and minor = b & 15, both in 0..15, with ( major << 4 ) | minor = b; and
\* decode( encode( g ) ).version is { major: 1, minor: 0 } for every record g.
C17_VersionByte ==
    /\ encodeVersion = 16
    /\ ~version.isNull =>
            LET b == Byte(buffer, 5)
                v == version.data
            IN  /\ v.major = b \div 16
                /\ v.minor = b % 16
                /\ v.major \in 0 .. 15 /\ v.minor \in 0 .. 15
                /\ 16 * v.major + v.minor = b
    /\ (pc = "done" /\ geometry # NoGeometry) =>
            returned.version = [major |-> 1, minor |-> 0]
    /\ pc = "done" => returned.version = version.data

\* the version byte 0xA5 read back as 10.5
C17_Witness ==
    /\ pc = "done"
    /\ Byte(buffer, 5) = 165
    /\ returned.version = [major |-> 10, minor |-> 5]

\* The four channels returned are the numbers r, g, b, a, each 0 or 1.
IsRGBA(out, r, g, b, a) ==
    /\ out[1][1] = r * out[1][2]
    /\ out[2][1] = g * out[2][2]
    /\ out[3][1] = b * out[3][2]
    /\ out[4][1] = a * out[4][2]

\* C18: floatToRGBA5551( 0, 0, 1, 0 ) returns 30 and rgba5551ToFloat( 30 )
\* returns [ 0, 0, 1, 0 ]; floatToRGBA5551( 0, 1, 0, 1 ) returns 1985 and
\* rgba5551ToFloat( 1985 ) returns [ 0, 1, 0, 1 ].
C18_DocumentedRGBA5551 ==
    /\ (call.op = "floatToRGBA5551" /\ call.in = <<0, 0, ColDen, 0>>) => call.out = 30
    /\ (call.op = "rgba5551ToFloatOf" /\ call.in = 30) => IsRGBA(call.out, 0, 0, 1, 0)
    /\ (call.op = "floatToRGBA5551" /\ call.in = <<0, ColDen, 0, ColDen>>) =>
            call.out = 1985
    /\ (call.op = "rgba5551ToFloatOf" /\ call.in = 1985) => IsRGBA(call.out, 0, 1, 0, 1)

\* The offsets at which the buffer encode returns for g holds a 16-bit field.
Uint16Offsets(g) ==
    {VertexCountOffset}
    \cup {VerticesOffset + 2 * (i - 1) : i \in 1 .. Len(g.vertices)}
    \cup (IF g.indices.isNull THEN {}
          ELSE {IndicesOffset(g) + 2 * i : i \in 0 .. g.indices.length})
    \cup (IF g.uvs.isNull THEN {}
          ELSE {UVsOffset(g) + 2 * (i - 1) : i \in 1 .. Len(g.uvs.data)})
    \cup (IF g.colors.isNull THEN {}
          ELSE {ColorsOffset(g) + 2 * (k - 1) : k \in 1 .. VertexCountOf(g)})

\* C19: in every buffer encode returns, every 16-bit field (the vertex count,
\* each vertex component, the index count, each index, each uv component,
\* each packed colour) starts at an even byte offset.
C19_AlignedData ==
    pc = "encoded" => \A off \in Uint16Offsets(geometry) : off % 2 = 0

----------------------------------------------------------------------------
(* Properties of the half-float conversion, field by field.                *)

\* The three fields of a 16-bit half pattern.
HalfSign(h) == h \div 32768

HalfExponent(h) == (h \div 1024) % 32

HalfMantissa(h) == h % 1024

\* A float32 that is an infinity, of either sign.
IsInfinity(f) == f.e = 255 /\ f.m = 0

\* C21: for every 16-bit pattern h whose exponent field is 0x1F,
\* float16ToFloa32( h ) is an infinity when the ten mantissa bits of h are
\* all zero (0x7C00, 0xFC00) and NaN when a mantissa bit is set.
C21_HalfInfinityOrNaN ==
    (call.op = "halfRoundTrip" /\ HalfExponent(call.in) = 31) =>
        IF HalfMantissa(call.in) = 0 THEN IsInfinity(call.mid)
        ELSE IsNaN(call.mid)

\* floor( log2( m ) ) for m >= 1
RECURSIVE Log2(_)
Log2(m) == IF m <= 1 THEN 0 ELSE 1 + Log2(m \div 2)

\* The float32 that holds the IEEE binary16 value of the finite half pattern
\* h: ( -1 )^s * m * 2^-24 when the exponent field is 0 (normalised, with
\* k = floor( log2( m ) ): 1.f * 2^( k - 24 )), and
\* ( -1 )^s * 2^( e - 15 ) * ( 1 + m / 1024 ) when it is in 1 .. 30.
IEEEHalfValue(h) ==
    LET s == HalfSign(h)
        e == HalfExponent(h)
        m == HalfMantissa(h)
    IN  IF e # 0 THEN F32(s, e + 112, m * 8192)
        ELSE IF m = 0 THEN F32(s, 0, 0)
        ELSE LET k == Log2(m)
             IN  F32(s, 103 + k, (m - 2^k) * 2^(23 - k))

\* The float32 f is a normal binary16 value: its rebiased exponent is in
\* 1 .. 30 and the low 13 bits of its mantissa are zero.
IsNormalHalf(f) == f.e - 112 \in 1 .. 30 /\ f.m % 8192 = 0

\* The float32 f is m * 2^-24 for some m in 1 .. 1023: 2^k <= m < 2^( k + 1 )
\* with k = f.e - 103 in 0 .. 9, and only the top k mantissa bits may be set.
IsSubnormalHalf(f) == f.e \in 103 .. 112 /\ f.m % 2^(23 - (f.e - 103)) = 0

\* The binary16 bit pattern of a float32 that is exactly representable.
HalfBitsOf(f) ==
    IF IsNormalHalf(f)
    THEN f.s * 32768 + (f.e - 112) * 1024 + f.m \div 8192
    ELSE f.s * 32768 + 2^(f.e - 103) + f.m \div 2^(23 - (f.e - 103))

\* C22: for every float32 that is exactly representable in binary16, normal
\* or subnormal, float32ToFloat16 returns the binary16 bit pattern of that
\* value; and for every half pattern with exponent field 0, float16ToFloa32
\* returns the IEEE binary16 value ( -1 )^s * m * 2^-24.
C22_IEEEBinary16 ==
    /\ (/\ call.op = "float32ToFloat16"
        /\ (IsNormalHalf(call.in) \/ IsSubnormalHalf(call.in)))
            => call.out = HalfBitsOf(call.in)
    /\ (call.op = "halfRoundTrip" /\ HalfExponent(call.in) = 0)
            => call.mid = IEEEHalfValue(call.in)

\* C23: for every finite float32 v whose rebiased exponent is in 1 .. 30,
\* float32ToFloat16( v ) is sign | ( exponent << 10 ) | ( top 10 mantissa
\* bits ): the half has the sign and the exponent of v, and its mantissa m is
\* the largest with m * 2^13 <= mantissa of v, so its magnitude is the largest
\* half magnitude not above | v | (truncation, never rounding up).
C23_Truncation ==
    (call.op = "float32ToFloat16" /\ call.in.e - 112 \in 1 .. 30) =>
        LET m == HalfMantissa(call.out)
        IN  /\ call.out = call.in.s * 32768 + (call.in.e - 112) * 1024
                          + call.in.m \div 8192
            /\ HalfSign(call.out) = call.in.s
            /\ HalfExponent(call.out) = call.in.e - 112
            /\ m * 8192 <= call.in.m
            /\ call.in.m < (m + 1) * 8192

\* float32ToFloat16 of the float32 just below -2: all 23 mantissa bits set,
\* where rounding to nearest would carry into the exponent.
C23_Witness ==
    /\ call.op = "float32ToFloat16"
    /\ call.in = F32(1, 127, 2^23 - 1)
    /\ call.out = 32768 + 15360 + 1023

\* C26: for every finite float32 v, float32ToFloat16( v ) is not a half NaN
\* pattern, and a value too large for a half (2^16 or more in magnitude)
\* becomes the signed infinity pattern sign | 0x7C00.
C26_FiniteNeverNaN ==
    (call.op = "float32ToFloat16" /\ call.in.e # 255) =>
        /\ IsHalfValue(call.out)
        /\ call.in.e - 112 >= 31 => call.out = call.in.s * 32768 + 31744

\* C30: for every 16-bit pattern h whose exponent field e is in 1 .. 30,
\* float16ToFloa32( h ) is exactly ( -1 )^s * 2^( e - 15 ) * ( 1 + m / 1024 )
\* (the float32 with exponent field e + 112 and mantissa m * 2^13) and
\* float32ToFloat16 of it is h again.
C30_NormalHalfRoundTrip ==
    (call.op = "halfRoundTrip" /\ HalfExponent(call.in) \in 1 .. 30) =>
        /\ call.mid = F32(HalfSign(call.in), HalfExponent(call.in) + 112,
                          HalfMantissa(call.in) * 8192)
        /\ call.mid = IEEEHalfValue(call.in)
        /\ call.out = call.in

\* 15923 decodes to 1.5498046875 = 1 + 563 / 1024 and encodes back to 15923.
C30_Witness ==
    /\ call.op = "halfRoundTrip"
    /\ call.in = 15923
    /\ call.mid = F32(0, 127, 563 * 8192)
    /\ call.out = 15923

----------------------------------------------------------------------------
(* Further properties of the octahedral and colour codecs.                 *)

C28_RequantizeIdentity ==
    call.op \in {"requantizeRGB565", "requantizeRGBA5551"} => call.out = call.in

\* Both packers on 0xABCD, a value with every field non-zero and the alpha
\* bit set: the channels are 21/31, 30/63, 13/31 and 21/31, 15/31, 6/31, 1.
C28_Witness ==
    \/ /\ call.op = "requantizeRGB565"
       /\ call.in = 43981
       /\ call.mid = <<<<21, 31>>, <<30, 63>>, <<13, 31>>>>
       /\ call.out = 43981
    \/ /\ call.op = "requantizeRGBA5551"
       /\ call.in = 43981
       /\ call.mid = <<<<21, 31>>, <<15, 31>>, <<6, 31>>, <<1, 1>>>>
       /\ call.out = 43981

----------------------------------------------------------------------------
(* Properties of sequences of encode and decode calls.                     *)

\* The two buffers hold the same bytes.
SameBytes(a, b) ==
    /\ ByteLength(a) = ByteLength(b)
    /\ \A k \in 0 .. ByteLength(a) - 1 : Byte(a, k) = Byte(b, k)

\* The earlier call e ended as the call that has just ended did.
SameOutcome(e) ==
    /\ e.threw = Ended.threw
    /\ e.out = Ended.out

\* A call of decode is between its first and its last statement.
InDecode ==
    pc \in {"magic", "check", "version", "flags", "vertexCount", "vertices",
            "indices", "normals", "uvs", "colors", "return"}

\* Every earlier call of the same function on an equal argument ended as the
\* one that has just ended.
Independent ==
    /\ DecodeEnded =>
        \A i \in 1 .. Len(CallLog) :
            (CallLog[i].fn = "decode" /\ SameBytes(CallLog[i].arg, buffer))
                => SameOutcome(CallLog[i])
    /\ EncodeEnded =>
        \A i \in 1 .. Len(CallLog) :
            (CallLog[i].fn = "encode" /\ CallLog[i].arg = geometry)
                => SameOutcome(CallLog[i])

HeaderVariant(a, b) ==
    /\ ByteLength(a) = ByteLength(b)
    /\ \A k \in 0 .. ByteLength(a) - 1 :
        IF k = 5 THEN TRUE
        ELSE IF k = 6 THEN Byte(a, k) % 32 = Byte(b, k) % 32
        ELSE Byte(a, k) = Byte(b, k)

\* The arrays of two returned records are equal.
SameArrays(r, s) ==
    /\ r.vertices = s.vertices
    /\ r.indices = s.indices
    /\ r.normals = s.normals
    /\ r.uvs = s.uvs
    /\ r.colorsRGB = s.colorsRGB
    /\ r.colorsRGBA = s.colorsRGBA

\* C25: for any two buffers that differ only in the version byte and in the
\* flag bits 0x20, 0x40, 0x80, decode fails on both or returns records with
\* equal vertices, indices, normals, uvs, colorsRGB and colorsRGBA.
C25_VersionAndUnusedFlags ==
    DecodeEnded =>
        \A i \in 1 .. Len(CallLog) :
            (CallLog[i].fn = "decode" /\ HeaderVariant(CallLog[i].arg, buffer))
                => \/ CallLog[i].threw /\ pc = "failed"
                   \/ /\ ~CallLog[i].threw
                      /\ pc = "done"
                      /\ SameArrays(CallLog[i].out, returned)

\* decode returned for a buffer and for its copy with another version byte
\* and other unused flag bits; the records hold indices and differ in version.
C25_Witness ==
    /\ pc = "done"
    /\ \E i \in 1 .. Len(CallLog) :
        /\ CallLog[i].fn = "decode"
        /\ ~CallLog[i].threw
        /\ HeaderVariant(CallLog[i].arg, buffer)
        /\ Byte(CallLog[i].arg, 5) # Byte(buffer, 5)
        /\ Byte(CallLog[i].arg, 6) # Byte(buffer, 6)
        /\ CallLog[i].out.version # returned.version
        /\ SameArrays(CallLog[i].out, returned)
    /\ ~returned.indices.isNull
    /\ vertexCount > 0

\* Buffer b is buffer a followed by at least one more byte.
IsExtension(a, b) ==
    /\ ByteLength(a) < ByteLength(b)
    /\ \A k \in 0 .. ByteLength(a) - 1 : Byte(a, k) = Byte(b, k)

\* C29: for every buffer b that decode accepts and every sequence t of extra
\* bytes, decode of b followed by t returns the same record as decode( b ).
C29_TrailingBytesIgnored ==
    DecodeEnded =>
        \A i \in 1 .. Len(CallLog) :
            LET e == CallLog[i]
            IN  /\ (e.fn = "decode" /\ ~e.threw /\ IsExtension(e.arg, buffer))
                        => (pc = "done" /\ returned = e.out)
                /\ (e.fn = "decode" /\ pc = "done" /\ IsExtension(buffer, e.arg))
                        => (~e.threw /\ e.out = returned)

\* decode returned for a buffer it read to the end, and again for that buffer
\* with two more bytes, which it did not read.
C29_Witness ==
    /\ pc = "done"
    /\ offset + 2 = ByteLength(buffer)
    /\ vertexCount > 0
    /\ \E i \in 1 .. Len(CallLog) :
        /\ CallLog[i].fn = "decode"
        /\ ~CallLog[i].threw
        /\ IsExtension(CallLog[i].arg, buffer)
        /\ ByteLength(CallLog[i].arg) = offset
        /\ CallLog[i].out = returned

====
